---------------------------- MODULE Spec2Model ----------------------------
(***************************************************************************)
(* A model of youtube_playlist_downloader.py: the command-line wrapper     *)
(* that picks a target URL, launches yt-dlp, classifies its output lines   *)
(* and removes intermediate files afterwards.                              *)
(*                                                                         *)
(* Python strings that the program inspects (URLs, output lines, operator  *)
(* answers, file names, glob patterns) are sequences of one-character      *)
(* strings, so that `in`, strip(), lower(), split(), endswith() and glob   *)
(* matching are computed character by character as the program does.       *)
(* Names of directories under the output root are never inspected by the   *)
(* program and are plain strings.                                          *)
(***************************************************************************)
EXTENDS Naturals, Sequences, FiniteSets

(***************************************************************************)
(* String literals of the source.                                          *)
(***************************************************************************)

\* 'https://www.youtube.com/playlist?list=PLO_7Kx05VzchqbmSOPNqZJ1s1h7uzR4Ha'
default_playlist_url ==
    << "h", "t", "t", "p", "s", ":", "/", "/", "w", "w", "w", ".", "y", "o",
       "u", "t", "u", "b", "e", ".", "c", "o", "m", "/", "p", "l", "a", "y",
       "l", "i", "s", "t", "?", "l", "i", "s", "t", "=", "P", "L", "O", "_",
       "7", "K", "x", "0", "5", "V", "z", "c", "h", "q", "b", "m", "S", "O",
       "P", "N", "q", "Z", "J", "1", "s", "1", "h", "7", "u", "z", "R", "4",
       "H", "a" >>

\* 'https://www.youtube.com/watch?v=ELgJ7SUqhP0'
default_video_url ==
    << "h", "t", "t", "p", "s", ":", "/", "/", "w", "w", "w", ".", "y", "o",
       "u", "t", "u", "b", "e", ".", "c", "o", "m", "/", "w", "a", "t", "c",
       "h", "?", "v", "=", "E", "L", "g", "J", "7", "S", "U", "q", "h", "P",
       "0" >>

\* 'watch?v='
WatchMarker ==
    << "w", "a", "t", "c", "h", "?", "v", "=" >>

\* 'list='
ListMarker ==
    << "l", "i", "s", "t", "=" >>

\* 'youtube.com'
HostLong ==
    << "y", "o", "u", "t", "u", "b", "e", ".", "c", "o", "m" >>

\* 'youtu.be'
HostShort ==
    << "y", "o", "u", "t", "u", ".", "b", "e" >>

\* 'y'
AnsY ==
    << "y" >>

\* 'yes'
AnsYes ==
    << "y", "e", "s" >>

\* 'video unavailable'
SkipUnavailable ==
    << "v", "i", "d", "e", "o", " ", "u", "n", "a", "v", "a", "i", "l", "a",
       "b", "l", "e" >>

\* 'private video'
SkipPrivate ==
    << "p", "r", "i", "v", "a", "t", "e", " ", "v", "i", "d", "e", "o" >>

\* 'blocked'
SkipBlocked ==
    << "b", "l", "o", "c", "k", "e", "d" >>

\* 'terminated'
SkipTerminated ==
    << "t", "e", "r", "m", "i", "n", "a", "t", "e", "d" >>

\* 'copyright'
SkipCopyright ==
    << "c", "o", "p", "y", "r", "i", "g", "h", "t" >>

\* 'error:'
ErrorMarker ==
    << "e", "r", "r", "o", "r", ":" >>

\* 'downloading'
KwDownloading ==
    << "d", "o", "w", "n", "l", "o", "a", "d", "i", "n", "g" >>

\* 'finished'
KwFinished ==
    << "f", "i", "n", "i", "s", "h", "e", "d" >>

\* 'extracting'
KwExtracting ==
    << "e", "x", "t", "r", "a", "c", "t", "i", "n", "g" >>

\* '%'
KwPercent ==
    << "%" >>

\* 'playlist'
KwPlaylist ==
    << "p", "l", "a", "y", "l", "i", "s", "t" >>

\* '/Single Videos/%(title)s.%(ext)s'
SingleTemplateTail ==
    << "/", "S", "i", "n", "g", "l", "e", " ", "V", "i", "d", "e", "o", "s",
       "/", "%", "(", "t", "i", "t", "l", "e", ")", "s", ".", "%", "(", "e",
       "x", "t", ")", "s" >>

\* '/%(playlist_title)s/%(title)s.%(ext)s'
PlaylistTemplateTail ==
    << "/", "%", "(", "p", "l", "a", "y", "l", "i", "s", "t", "_", "t", "i",
       "t", "l", "e", ")", "s", "/", "%", "(", "t", "i", "t", "l", "e", ")",
       "s", ".", "%", "(", "e", "x", "t", ")", "s" >>

\* '/home/u/Desktop/videos'
HomeVideos ==
    << "/", "h", "o", "m", "e", "/", "u", "/", "D", "e", "s", "k", "t", "o",
       "p", "/", "v", "i", "d", "e", "o", "s" >>

\* 'python'
ArgPython ==
    << "p", "y", "t", "h", "o", "n" >>

\* '-m'
ArgM ==
    << "-", "m" >>

\* 'yt_dlp'
ArgYtDlp ==
    << "y", "t", "_", "d", "l", "p" >>

\* '--format'
ArgFormat ==
    << "-", "-", "f", "o", "r", "m", "a", "t" >>

\* 'best[ext=mp4]/best'
ArgBest ==
    << "b", "e", "s", "t", "[", "e", "x", "t", "=", "m", "p", "4", "]", "/",
       "b", "e", "s", "t" >>

\* '--output'
ArgOutput ==
    << "-", "-", "o", "u", "t", "p", "u", "t" >>

\* '--ignore-errors'
ArgIgnoreErrors ==
    << "-", "-", "i", "g", "n", "o", "r", "e", "-", "e", "r", "r", "o", "r",
       "s" >>

\* '--continue'
ArgContinue ==
    << "-", "-", "c", "o", "n", "t", "i", "n", "u", "e" >>

\* '--no-overwrites'
ArgNoOverwrites ==
    << "-", "-", "n", "o", "-", "o", "v", "e", "r", "w", "r", "i", "t", "e",
       "s" >>

\* '--skip-unavailable-fragments'
ArgSkipFragments ==
    << "-", "-", "s", "k", "i", "p", "-", "u", "n", "a", "v", "a", "i", "l",
       "a", "b", "l", "e", "-", "f", "r", "a", "g", "m", "e", "n", "t", "s" >>

\* '--abort-on-unavailable-fragment'
ArgAbortFragment ==
    << "-", "-", "a", "b", "o", "r", "t", "-", "o", "n", "-", "u", "n", "a",
       "v", "a", "i", "l", "a", "b", "l", "e", "-", "f", "r", "a", "g", "m",
       "e", "n", "t" >>

\* '--no-abort-on-error'
ArgNoAbort ==
    << "-", "-", "n", "o", "-", "a", "b", "o", "r", "t", "-", "o", "n", "-",
       "e", "r", "r", "o", "r" >>

\* '--ignore-config'
ArgIgnoreConfig ==
    << "-", "-", "i", "g", "n", "o", "r", "e", "-", "c", "o", "n", "f", "i",
       "g" >>

\* '--yes-playlist'
ArgYesPlaylist ==
    << "-", "-", "y", "e", "s", "-", "p", "l", "a", "y", "l", "i", "s", "t" >>

\* '*.f*.mp4'
PatFMp4 ==
    << "*", ".", "f", "*", ".", "m", "p", "4" >>

\* '*.f*.m4a'
PatFM4a ==
    << "*", ".", "f", "*", ".", "m", "4", "a" >>

\* '*.f*.webm'
PatFWebm ==
    << "*", ".", "f", "*", ".", "w", "e", "b", "m" >>

\* '*.f*.mkv'
PatFMkv ==
    << "*", ".", "f", "*", ".", "m", "k", "v" >>

\* '*.info.json'
PatInfoJson ==
    << "*", ".", "i", "n", "f", "o", ".", "j", "s", "o", "n" >>

\* '*.description'
PatDescription ==
    << "*", ".", "d", "e", "s", "c", "r", "i", "p", "t", "i", "o", "n" >>

\* '*.jpg'
PatJpg ==
    << "*", ".", "j", "p", "g" >>

\* '*.jpeg'
PatJpeg ==
    << "*", ".", "j", "p", "e", "g" >>

\* '*.png'
PatPng ==
    << "*", ".", "p", "n", "g" >>

\* '*.webp'
PatWebp ==
    << "*", ".", "w", "e", "b", "p" >>

\* '*.m4a'
PatM4a ==
    << "*", ".", "m", "4", "a" >>

\* '*.srt'
PatSrt ==
    << "*", ".", "s", "r", "t" >>

\* '*.vtt'
PatVtt ==
    << "*", ".", "v", "t", "t" >>

\* '.f'
DotF ==
    << ".", "f" >>

\* '.mp4'
ExtMp4 ==
    << ".", "m", "p", "4" >>

\* '.mkv'
ExtMkv ==
    << ".", "m", "k", "v" >>

\* '.webm'
ExtWebm ==
    << ".", "w", "e", "b", "m" >>

(***************************************************************************)
(* Python string operations.                                               *)
(***************************************************************************)

\* `sub in s`
Contains(s, sub) ==
    \E i \in 0..Len(s) :
        /\ i + Len(sub) <= Len(s)
        /\ SubSeq(s, i + 1, i + Len(sub)) = sub

\* s.endswith(suffix)
EndsWith(s, suffix) ==
    /\ Len(suffix) <= Len(s)
    /\ SubSeq(s, Len(s) - Len(suffix) + 1, Len(s)) = suffix

UpperLetters ==
    << "A", "B", "C", "D", "E", "F", "G", "H", "I", "J", "K", "L", "M",
       "N", "O", "P", "Q", "R", "S", "T", "U", "V", "W", "X", "Y", "Z" >>

LowerLetters ==
    << "a", "b", "c", "d", "e", "f", "g", "h", "i", "j", "k", "l", "m",
       "n", "o", "p", "q", "r", "s", "t", "u", "v", "w", "x", "y", "z" >>

LowerChar(c) ==
    IF \E i \in 1..Len(UpperLetters) : UpperLetters[i] = c
    THEN LowerLetters[CHOOSE i \in 1..Len(UpperLetters) : UpperLetters[i] = c]
    ELSE c

\* s.lower()
Lower(s) == [i \in 1..Len(s) |-> LowerChar(s[i])]

Whitespace == {" ", "\t", "\n", "\r"}

\* s.strip(): the longest slice without leading or trailing whitespace
Strip(s) ==
    LET inner == {i \in 1..Len(s) : s[i] \notin Whitespace}
    IN  IF inner = {} THEN <<>>
        ELSE LET lo == CHOOSE i \in inner : \A j \in inner : i <= j
                 hi == CHOOSE i \in inner : \A j \in inner : j <= i
             IN  SubSeq(s, lo, hi)

\* s.split(sep)[0]: the text before the first occurrence of sep, all of s
\* when sep does not occur
SplitFirst(s, sep) ==
    LET at == {i \in 0..Len(s) : /\ i + Len(sep) <= Len(s)
                                 /\ SubSeq(s, i + 1, i + Len(sep)) = sep}
    IN  IF at = {} THEN s
        ELSE SubSeq(s, 1, CHOOSE i \in at : \A j \in at : i <= j)

\* fnmatch of a pattern whose only wildcard is "*"
RECURSIVE FnMatch(_, _)
FnMatch(name, pattern) ==
    IF pattern = <<>> THEN name = <<>>
    ELSE IF Head(pattern) = "*"
         THEN \E k \in 0..Len(name) :
                  FnMatch(SubSeq(name, k + 1, Len(name)), Tail(pattern))
         ELSE /\ name # <<>>
              /\ Head(name) = Head(pattern)
              /\ FnMatch(Tail(name), Tail(pattern))

\* glob.glob(os.path.join(directory, pattern)) over the names of a
\* directory: fnmatch on the base name, and a name that starts with a dot
\* is matched only by a pattern that starts with a dot
Glob(names, pattern) ==
    {n \in names : /\ FnMatch(n, pattern)
                   /\ (n # <<>> /\ Head(n) = ".") => Head(pattern) = "."}

(***************************************************************************)
(* Sample inputs: URLs, operator input, yt-dlp output lines, file names.   *)
(***************************************************************************)

\* 'https://www.youtube.com/watch?v=ab'
UrlVideo ==
    << "h", "t", "t", "p", "s", ":", "/", "/", "w", "w", "w", ".", "y", "o",
       "u", "t", "u", "b", "e", ".", "c", "o", "m", "/", "w", "a", "t", "c",
       "h", "?", "v", "=", "a", "b" >>

\* 'https://www.youtube.com/playlist?list=PL1'
UrlPlaylist ==
    << "h", "t", "t", "p", "s", ":", "/", "/", "w", "w", "w", ".", "y", "o",
       "u", "t", "u", "b", "e", ".", "c", "o", "m", "/", "p", "l", "a", "y",
       "l", "i", "s", "t", "?", "l", "i", "s", "t", "=", "P", "L", "1" >>

\* 'https://www.youtube.com/watch?v=ab&list=PL1'
UrlVideoInList ==
    << "h", "t", "t", "p", "s", ":", "/", "/", "w", "w", "w", ".", "y", "o",
       "u", "t", "u", "b", "e", ".", "c", "o", "m", "/", "w", "a", "t", "c",
       "h", "?", "v", "=", "a", "b", "&", "l", "i", "s", "t", "=", "P", "L",
       "1" >>

\* 'https://youtu.be/ab'
UrlShort ==
    << "h", "t", "t", "p", "s", ":", "/", "/", "y", "o", "u", "t", "u", ".",
       "b", "e", "/", "a", "b" >>

\* 'https://example.com/clip'
UrlOther ==
    << "h", "t", "t", "p", "s", ":", "/", "/", "e", "x", "a", "m", "p", "l",
       "e", ".", "c", "o", "m", "/", "c", "l", "i", "p" >>

\* 'example.com/?list=7'
UrlOtherList ==
    << "e", "x", "a", "m", "p", "l", "e", ".", "c", "o", "m", "/", "?", "l",
       "i", "s", "t", "=", "7" >>

\* 'https://youtube.com/'
PartHost ==
    << "h", "t", "t", "p", "s", ":", "/", "/", "y", "o", "u", "t", "u", "b",
       "e", ".", "c", "o", "m", "/" >>

\* 'watch?v='
PartWatch ==
    << "w", "a", "t", "c", "h", "?", "v", "=" >>

\* 'list='
PartList ==
    << "l", "i", "s", "t", "=" >>

\* 'ab'
PartId ==
    << "a", "b" >>

\* '&'
PartAmp ==
    << "&" >>

\* 'playlist?'
PartPlaylist ==
    << "p", "l", "a", "y", "l", "i", "s", "t", "?" >>

\* ''
TypedEmpty == <<>>

\* '  '
TypedBlank ==
    << " ", " " >>

\* ' https://youtu.be/ab '
TypedShortPadded ==
    << " ", "h", "t", "t", "p", "s", ":", "/", "/", "y", "o", "u", "t", "u",
       ".", "b", "e", "/", "a", "b", " " >>

\* 'YOUTUBE.COM/watch?v=ab'
TypedUpperHost ==
    << "Y", "O", "U", "T", "U", "B", "E", ".", "C", "O", "M", "/", "w", "a",
       "t", "c", "h", "?", "v", "=", "a", "b" >>

\* 'y'
TypedY ==
    << "y" >>

\* 'Y'
TypedUpperY ==
    << "Y" >>

\* ' Yes '
TypedYesPadded ==
    << " ", "Y", "e", "s", " " >>

\* 'n'
TypedN ==
    << "n" >>

\* 'yeah'
TypedYeah ==
    << "y", "e", "a", "h" >>

\* '\n'
LineBlank ==
    << "\n" >>

\* '   \n'
LineSpaces ==
    << " ", " ", " ", "\n" >>

\* 'ERROR: Video unavailable\n'
LineErrUnavailable ==
    << "E", "R", "R", "O", "R", ":", " ", "V", "i", "d", "e", "o", " ", "u",
       "n", "a", "v", "a", "i", "l", "a", "b", "l", "e", "\n" >>

\* 'ERROR: [youtube] ab: Private video\n'
LineErrPrivate ==
    << "E", "R", "R", "O", "R", ":", " ", "[", "y", "o", "u", "t", "u", "b",
       "e", "]", " ", "a", "b", ":", " ", "P", "r", "i", "v", "a", "t", "e",
       " ", "v", "i", "d", "e", "o", "\n" >>

\* 'ERROR: unable to download webpage\n'
LineErrOther ==
    << "E", "R", "R", "O", "R", ":", " ", "u", "n", "a", "b", "l", "e", " ",
       "t", "o", " ", "d", "o", "w", "n", "l", "o", "a", "d", " ", "w", "e",
       "b", "p", "a", "g", "e", "\n" >>

\* 'WARNING: blocked in your country\n'
LineWarnBlocked ==
    << "W", "A", "R", "N", "I", "N", "G", ":", " ", "b", "l", "o", "c", "k",
       "e", "d", " ", "i", "n", " ", "y", "o", "u", "r", " ", "c", "o", "u",
       "n", "t", "r", "y", "\n" >>

\* '[download]  50% of 3MiB\n'
LineProgress ==
    << "[", "d", "o", "w", "n", "l", "o", "a", "d", "]", " ", " ", "5", "0",
       "%", " ", "o", "f", " ", "3", "M", "i", "B", "\n" >>

\* '[youtube:tab] Downloading playlist: Mix\n'
LinePlaylist ==
    << "[", "y", "o", "u", "t", "u", "b", "e", ":", "t", "a", "b", "]", " ",
       "D", "o", "w", "n", "l", "o", "a", "d", "i", "n", "g", " ", "p", "l",
       "a", "y", "l", "i", "s", "t", ":", " ", "M", "i", "x", "\n" >>

\* '[youtube] Extracting URL\n'
LineExtracting ==
    << "[", "y", "o", "u", "t", "u", "b", "e", "]", " ", "E", "x", "t", "r",
       "a", "c", "t", "i", "n", "g", " ", "U", "R", "L", "\n" >>

\* 'Deleting original file\n'
LineQuiet ==
    << "D", "e", "l", "e", "t", "i", "n", "g", " ", "o", "r", "i", "g", "i",
       "n", "a", "l", " ", "f", "i", "l", "e", "\n" >>

\* '  Error: Copyright claim  \n'
LineUpperError ==
    << " ", " ", "E", "r", "r", "o", "r", ":", " ", "C", "o", "p", "y", "r",
       "i", "g", "h", "t", " ", "c", "l", "a", "i", "m", " ", " ", "\n" >>

\* 'talk.f135.mp4'
FTalk135 ==
    << "t", "a", "l", "k", ".", "f", "1", "3", "5", ".", "m", "p", "4" >>

\* 'talk.f140.m4a'
FTalk140 ==
    << "t", "a", "l", "k", ".", "f", "1", "4", "0", ".", "m", "4", "a" >>

\* 'talk.mp4'
FTalk ==
    << "t", "a", "l", "k", ".", "m", "p", "4" >>

\* 'a.b.f135.mp4'
FAb135 ==
    << "a", ".", "b", ".", "f", "1", "3", "5", ".", "m", "p", "4" >>

\* 'a.b.mp4'
FAb ==
    << "a", ".", "b", ".", "m", "p", "4" >>

\* 'talk.info.json'
FInfo ==
    << "t", "a", "l", "k", ".", "i", "n", "f", "o", ".", "j", "s", "o", "n" >>

\* 'thumb.webp'
FThumb ==
    << "t", "h", "u", "m", "b", ".", "w", "e", "b", "p" >>

\* 'talk.final.mp4'
FTalkFinal ==
    << "t", "a", "l", "k", ".", "f", "i", "n", "a", "l", ".", "m", "p", "4" >>

\* '.f1.mp4'
FHidden ==
    << ".", "f", "1", ".", "m", "p", "4" >>

\* 'notes.txt'
FNotes ==
    << "n", "o", "t", "e", "s", ".", "t", "x", "t" >>

\* 'art.jpg'
DArt ==
    << "a", "r", "t", ".", "j", "p", "g" >>

(***************************************************************************)
(* Bounds of the model.                                                    *)
(***************************************************************************)

\* URL prompts answered by one operator
MaxPrompts == 2

\* fragments a sample URL is built from
MaxParts == 3

\* lines read from the subprocess
MaxLines == 3

\* entries of a directory handed to cleanup_temp_files
MaxEntries == 4

(***************************************************************************)
(* State.                                                                  *)
(***************************************************************************)
VARIABLES
    pc,               \* where control is
    stages,           \* the components entered so far, in order
    args,             \* the parsed command line
    created,          \* whether mkdir made the output directory ready
    output_dir,       \* create_download_directory's result
    video_url,        \* get_video_url's result
    typed,            \* the last line read by input(), as typed
    user_input,       \* get_video_url: user_input
    confirm,          \* get_video_url: confirm
    prompts,          \* URL prompts shown
    confirms,         \* confirmation questions shown
    is_single_video,  \* download_video_or_playlist: is_single_video
    output_template,  \* download_video_or_playlist: output_template
    cmd,              \* download_video_or_playlist: cmd
    launched,         \* whether subprocess.Popen was called
    line,             \* the last line read, stripped
    category,         \* how the last line was handled
    lines_read,       \* lines read from process.stdout
    nonblank,         \* of those, the lines not empty once stripped
    skipped_count,    \* download_video_or_playlist: skipped_count
    error_count,      \* download_video_or_playlist: error_count
    returncode,       \* process.returncode
    root,             \* the output root: directory name -> contents
    written,          \* the directory the subprocess wrote into
    playlist_dirs,    \* download_video_or_playlist: playlist_dirs
    playlist_dir,     \* download_video_or_playlist: playlist_dir
    before,           \* contents of the directory when cleanup began
    pattern_idx,      \* cleanup_temp_files: position in the pattern list
    pending,          \* cleanup_temp_files: globbed files still to visit
    cleaned_count,    \* cleanup_temp_files: cleaned_count
    total_cleaned,    \* cleanup_temp_files: total_cleaned
    downloaded_files, \* download_video_or_playlist: downloaded_files
    exc,              \* the exception that ended a stage
    raised_at,        \* where it was raised
    success,          \* download_video_or_playlist's result
    exit_code         \* the process's exit status

selectorVars == <<args, video_url, typed, user_input, confirm, prompts, confirms>>

invokerVars == <<is_single_video, output_template, cmd>>

readerVars ==
    <<line, category, lines_read, nonblank, skipped_count, error_count>>

fsVars == <<root, written>>

cleanerVars ==
    <<playlist_dirs, playlist_dir, before, pattern_idx, pending,
      cleaned_count, total_cleaned, downloaded_files>>

runVars ==
    <<created, output_dir, launched, returncode, exc, raised_at, success,
      exit_code>>

vars ==
    <<pc, stages, selectorVars, invokerVars, readerVars, fsVars,
      cleanerVars, runVars>>

\* None
None == "None"

\* An optional string: Python's None, or a string
NoString == [given |-> FALSE, value |-> <<>>]

Some(s) == [given |-> TRUE, value |-> s]

\* truth value of an optional string: None and "" are false
Truthy(o) == o.given /\ o.value # <<>>

(***************************************************************************)
(* Initial values shared by every specification: nothing has run yet.      *)
(* A result that is not set yet (Python's None, a function that has not    *)
(* returned) is the empty sequence, a set one is a one-element sequence.   *)
(***************************************************************************)

NoArgs == [url |-> NoString, single_video |-> FALSE, use_default |-> FALSE]

EmptyDir == [files |-> {}, subdirs |-> {}, locked |-> {}]

EmptyRoot == [d \in {} |-> EmptyDir]

InitSelector ==
    /\ video_url = <<>>
    /\ typed = <<>>
    /\ user_input = <<>>
    /\ confirm = <<>>
    /\ prompts = 0
    /\ confirms = 0

InitInvoker ==
    /\ is_single_video = FALSE
    /\ output_template = <<>>
    /\ cmd = <<>>

InitReader ==
    /\ line = <<>>
    /\ category = "none"
    /\ lines_read = 0
    /\ nonblank = 0
    /\ skipped_count = 0
    /\ error_count = 0

InitCleaner ==
    /\ playlist_dirs = <<>>
    /\ playlist_dir = <<>>
    /\ before = EmptyDir
    /\ pattern_idx = 0
    /\ pending = {}
    /\ cleaned_count = 0
    /\ total_cleaned = 0
    /\ downloaded_files = {}

InitRun ==
    /\ created = FALSE
    /\ output_dir = NoString
    /\ launched = FALSE
    /\ returncode = <<>>
    /\ exc = None
    /\ raised_at = None
    /\ success = <<>>
    /\ exit_code = <<>>

(***************************************************************************)
(* Target Selector: get_video_url.                                         *)
(***************************************************************************)

\* What the three `if args and args.<option>` tests decide: the URL to
\* return, or nothing when the interactive prompt is to be shown.  args is
\* always the argparse namespace, which is true.
ArgsChoiceDefaultFirst(a) ==
    IF Truthy(a.url) THEN Some(a.url.value)
    ELSE IF a.use_default THEN Some(default_playlist_url)
    ELSE IF a.single_video THEN Some(default_video_url)
    ELSE NoString

ArgsChoice(a) ==
    IF Truthy(a.url) THEN Some(a.url.value)
    ELSE IF a.single_video THEN Some(default_video_url)
    ELSE IF a.use_default THEN Some(default_playlist_url)
    ELSE NoString

\* "youtube.com" in user_input or "youtu.be" in user_input
LooksLikeYoutubeAnything(s) == TRUE

LooksLikeYoutube(s) == Contains(s, HostLong) \/ Contains(s, HostShort)

\* confirm in ['y', 'yes']
Confirmed(c) == c \in {AnsY, AnsYes}

\* get_video_url up to the prompt loop
SelectFromArgs ==
    /\ pc = "select"
    /\ stages' = Append(stages, "Target Selector")
    /\ LET choice == ArgsChoice(args)
       IN  IF choice.given
           THEN /\ video_url' = choice.value
                /\ pc' = "download"
           ELSE /\ video_url' = video_url
                /\ pc' = "prompt"
    /\ UNCHANGED <<args, typed, user_input, confirm, prompts, confirms>>
    /\ UNCHANGED <<invokerVars, readerVars, fsVars, cleanerVars, runVars>>

\* One pass of the loop body up to its first return or second input()
PromptUrl(Inputs) ==
    /\ pc = "prompt"
    /\ prompts < MaxPrompts
    /\ \E raw \in Inputs :
        /\ typed' = raw
        /\ user_input' = Strip(raw)
        /\ prompts' = prompts + 1
        /\ IF user_input' = <<>>
           THEN /\ video_url' = default_playlist_url
                /\ pc' = "download"
           ELSE IF LooksLikeYoutube(user_input')
           THEN /\ video_url' = user_input'
                /\ pc' = "download"
           ELSE /\ video_url' = video_url
                /\ pc' = "confirm"
    /\ UNCHANGED <<args, confirm, confirms, stages>>
    /\ UNCHANGED <<invokerVars, readerVars, fsVars, cleanerVars, runVars>>

\* The "Continue anyway?" question and what follows it
PromptConfirm(Answers) ==
    /\ pc = "confirm"
    /\ \E raw \in Answers :
        /\ typed' = raw
        /\ confirm' = Lower(Strip(raw))
        /\ confirms' = confirms + 1
        /\ IF Confirmed(confirm')
           THEN /\ video_url' = user_input
                /\ pc' = "download"
           ELSE /\ video_url' = video_url
                /\ pc' = "prompt"
    /\ UNCHANGED <<args, user_input, prompts, stages>>
    /\ UNCHANGED <<invokerVars, readerVars, fsVars, cleanerVars, runVars>>

\* Values of --url tried by the selector's specification
SelectorUrls ==
    {NoString} \cup
    {Some(u) : u \in {<<>>, UrlVideo, UrlPlaylist, UrlVideoInList,
                      UrlOther, default_playlist_url, default_video_url}}

\* What the operator may type at the URL prompt
SelectorInputs ==
    {TypedEmpty, TypedBlank, TypedShortPadded, TypedUpperHost, UrlVideo,
     UrlPlaylist, UrlOther, UrlOtherList}

\* What the operator may answer to "Continue anyway?"
SelectorAnswers ==
    {TypedEmpty, TypedY, TypedUpperY, TypedYesPadded, TypedN, TypedYeah}

InitSelectorSpec ==
    /\ pc = "select"
    /\ stages = <<>>
    /\ args \in [url : SelectorUrls, single_video : BOOLEAN,
                 use_default : BOOLEAN]
    /\ InitSelector /\ InitInvoker /\ InitReader /\ InitCleaner /\ InitRun
    /\ root = EmptyRoot
    /\ written = <<>>

NextSelector ==
    \/ SelectFromArgs
    \/ PromptUrl(SelectorInputs)
    \/ PromptConfirm(SelectorAnswers)

SpecSelector == InitSelectorSpec /\ [][NextSelector]_vars

(***************************************************************************)
(* Download Invoker: download_video_or_playlist, up to the subprocess.     *)
(***************************************************************************)

\* is_single_video as get_video_url's message computes it: the list marker
\* is not looked at
IsSingleVideoByWatchOnly(url) == Contains(url, WatchMarker)

\* "watch?v=" in url and "list=" not in url
IsSingleVideo(url) ==
    Contains(url, WatchMarker) /\ ~Contains(url, ListMarker)

\* the f-string chosen by `if is_single_video`
OutputTemplate(dir, single) ==
    IF single THEN dir \o SingleTemplateTail
    ELSE dir \o PlaylistTemplateTail

\* the list literal assigned to cmd
BaseCmd(template, url) ==
    << ArgPython, ArgM, ArgYtDlp,
       ArgFormat, ArgBest,
       ArgOutput, template,
       ArgIgnoreErrors,
       ArgContinue,
       ArgNoOverwrites,
       ArgSkipFragments,
       ArgAbortFragment,
       ArgNoAbort,
       ArgIgnoreConfig,
       url >>

\* list.insert(-1, x): x goes in front of the last element
InsertBeforeLast(list, x) ==
    IF list = <<>> THEN <<x>>
    ELSE SubSeq(list, 1, Len(list) - 1) \o <<x>> \o <<list[Len(list)]>>

\* cmd once `if not is_single_video: cmd.insert(-1, '--yes-playlist')` ran
BuildCmd(template, url, single) ==
    IF single THEN BaseCmd(template, url)
    ELSE InsertBeforeLast(BaseCmd(template, url), ArgYesPlaylist)

\* The function's body before its try block.  check_ffmpeg's result is
\* assigned to has_ffmpeg and never read.
StartDownload ==
    /\ pc = "download"
    /\ stages' = Append(stages, "Download Invoker")
    /\ \E has_ffmpeg \in BOOLEAN :
        /\ is_single_video' = IsSingleVideo(video_url)
        /\ output_template' =
               OutputTemplate(output_dir.value, is_single_video')
        /\ cmd' = BuildCmd(output_template', video_url, is_single_video')
    /\ pc' = "launch"
    /\ UNCHANGED <<selectorVars, readerVars, fsVars, cleanerVars, runVars>>

RECURSIVE Concat(_)
Concat(parts) ==
    IF parts = <<>> THEN <<>> ELSE Head(parts) \o Concat(Tail(parts))

UrlParts == {PartHost, PartWatch, PartList, PartId, PartAmp, PartPlaylist}

\* URLs handed to the invoker's specification: every concatenation of up
\* to MaxParts fragments, and the URLs the selector can return
SampleUrls ==
    {Concat(ps) : ps \in UNION {[1..n -> UrlParts] : n \in 1..MaxParts}}
    \cup {default_playlist_url, default_video_url, UrlVideo, UrlPlaylist,
          UrlVideoInList, UrlShort, UrlOther, UrlOtherList}

InitInvokerSpec ==
    /\ pc = "download"
    /\ stages = <<"Preflight Checker", "Destination Resolver",
                  "Target Selector">>
    /\ args = NoArgs
    /\ video_url \in SampleUrls
    /\ typed = <<>>
    /\ user_input = <<>>
    /\ confirm = <<>>
    /\ prompts = 0
    /\ confirms = 0
    /\ InitInvoker /\ InitReader /\ InitCleaner
    /\ created = TRUE
    /\ output_dir = Some(HomeVideos)
    /\ launched = FALSE
    /\ returncode = <<>>
    /\ exc = None
    /\ raised_at = None
    /\ success = <<>>
    /\ exit_code = <<>>
    /\ root = EmptyRoot
    /\ written = <<>>

NextInvoker == StartDownload

SpecInvoker == InitInvokerSpec /\ [][NextInvoker]_vars

(***************************************************************************)
(* Download Invoker: the loop over the subprocess's output.                *)
(***************************************************************************)

SkipPhrases ==
    {SkipUnavailable, SkipPrivate, SkipBlocked, SkipTerminated,
     SkipCopyright}

ProgressKeywords ==
    {KwDownloading, KwFinished, KwExtracting, KwPercent, KwPlaylist}

\* the if/elif chain with the 'error:' test moved to the front
ClassifyErrorFirst(text) ==
    IF Contains(Lower(text), ErrorMarker) THEN "error"
    ELSE IF \E p \in SkipPhrases : Contains(Lower(text), p) THEN "skipped"
    ELSE IF \E k \in ProgressKeywords : Contains(Lower(text), k)
         THEN "progress"
    ELSE "suppressed"

\* the if/elif chain applied to a stripped, non-empty line
Classify(text) ==
    IF \E p \in SkipPhrases : Contains(Lower(text), p) THEN "skipped"
    ELSE IF Contains(Lower(text), ErrorMarker) THEN "error"
    ELSE IF \E k \in ProgressKeywords : Contains(Lower(text), k)
         THEN "progress"
    ELSE "suppressed"

\* subprocess.Popen(...) returned; the two counters are set to 0
Launch ==
    /\ pc = "launch"
    /\ launched' = TRUE
    /\ skipped_count' = 0
    /\ error_count' = 0
    /\ pc' = "read"
    /\ UNCHANGED <<line, category, lines_read, nonblank>>
    /\ UNCHANGED <<stages, selectorVars, invokerVars, fsVars, cleanerVars>>
    /\ UNCHANGED <<created, output_dir, returncode, exc, raised_at, success,
                   exit_code>>

\* One iteration of `for line in process.stdout`
ReadLine(Lines) ==
    /\ pc = "read"
    /\ lines_read < MaxLines
    /\ \E raw \in Lines :
        /\ line' = Strip(raw)
        /\ lines_read' = lines_read + 1
        /\ IF line' = <<>>
           THEN /\ category' = "blank"
                /\ UNCHANGED <<nonblank, skipped_count, error_count>>
           ELSE /\ category' = Classify(line')
                /\ nonblank' = nonblank + 1
                /\ skipped_count' =
                       IF category' = "skipped" THEN skipped_count + 1
                       ELSE skipped_count
                /\ error_count' =
                       IF category' = "error" THEN error_count + 1
                       ELSE error_count
    /\ UNCHANGED <<pc, stages, selectorVars, invokerVars, fsVars,
                   cleanerVars, runVars>>

\* Lines the subprocess may print
ReaderLines ==
    {LineBlank, LineSpaces, LineErrUnavailable, LineErrPrivate,
     LineErrOther, LineWarnBlocked, LineProgress, LinePlaylist,
     LineExtracting, LineQuiet, LineUpperError}

InitReaderSpec ==
    /\ pc = "read"
    /\ stages = <<"Preflight Checker", "Destination Resolver",
                  "Target Selector", "Download Invoker">>
    /\ args = NoArgs
    /\ video_url = UrlPlaylist
    /\ typed = <<>>
    /\ user_input = <<>>
    /\ confirm = <<>>
    /\ prompts = 0
    /\ confirms = 0
    /\ is_single_video = IsSingleVideo(UrlPlaylist)
    /\ output_template = OutputTemplate(HomeVideos, is_single_video)
    /\ cmd = BuildCmd(output_template, UrlPlaylist, is_single_video)
    /\ InitReader /\ InitCleaner
    /\ created = TRUE
    /\ output_dir = Some(HomeVideos)
    /\ launched = TRUE
    /\ returncode = <<>>
    /\ exc = None
    /\ raised_at = None
    /\ success = <<>>
    /\ exit_code = <<>>
    /\ root = EmptyRoot
    /\ written = <<>>

NextReader == ReadLine(ReaderLines)

SpecReader == InitReaderSpec /\ [][NextReader]_vars

(***************************************************************************)
(* The output root.  root maps the name of each directory under it to the  *)
(* directory's contents: the names of its regular files, the names of its  *)
(* subdirectories, and the files on which os.remove raises OSError.        *)
(***************************************************************************)

\* os.listdir(d), as a set
Entries(d) == d.files \cup d.subdirs

\* os.path.exists(os.path.join(directory, name))
Exists(d, name) == name \in Entries(d)

\* os.remove(name) succeeds on anything not protected, a directory too
CanRemoveDirsToo(d, name) == name \in Entries(d) /\ name \notin d.locked

\* os.remove(name) succeeds: a regular file that can be unlinked.  On a
\* directory it raises IsADirectoryError or PermissionError, both OSError.
CanRemove(d, name) == name \in d.files /\ name \notin d.locked

\* the directory once name is gone
Without(d, name) ==
    [d EXCEPT !.files = @ \ {name}, !.subdirs = @ \ {name}]

\* The subprocess's effect on the output root: the files it leaves in the
\* directory its output template names.  Nothing is created when it wrote
\* nothing.
WriteInto(r, target, new) ==
    IF new = {} THEN r
    ELSE [d \in DOMAIN r \cup {target} |->
            IF d # target THEN r[d]
            ELSE IF d \in DOMAIN r
                 THEN [r[d] EXCEPT !.files = @ \cup (new \ r[d].subdirs)]
                 ELSE [files |-> new, subdirs |-> {}, locked |-> {}]]

(***************************************************************************)
(* Artifact Cleaner: cleanup_temp_files.                                   *)
(***************************************************************************)

temp_patterns == <<PatFMp4, PatFM4a, PatFWebm, PatFMkv>>

other_patterns ==
    <<PatInfoJson, PatDescription, PatJpg, PatJpeg, PatPng, PatWebp,
      PatM4a, PatSrt, PatVtt>>

unwanted_patterns == temp_patterns \o other_patterns

\* base_name.split('.f')[0] + '.mp4'
merged_name(base_name) == SplitFirst(base_name, DotF) \o ExtMp4

\* os.path.exists(merged_path)
MergedExists(d, temp_file) == Exists(d, merged_name(temp_file))

\* the directory being cleaned
Cleaned == root[playlist_dir[1]]

\* temp_files = glob.glob(...) for the next of temp_patterns
GlobTemp ==
    /\ pc = "cleanup_temp"
    /\ pending = {}
    /\ pattern_idx <= Len(temp_patterns)
    /\ pending' = Glob(Entries(Cleaned), temp_patterns[pattern_idx])
    /\ pattern_idx' = pattern_idx + 1
    /\ UNCHANGED <<pc, playlist_dirs, playlist_dir, before, cleaned_count,
                   total_cleaned, downloaded_files>>
    /\ UNCHANGED <<stages, selectorVars, invokerVars, readerVars, fsVars,
                   runVars>>

\* One iteration of `for temp_file in temp_files`, in any order
RemoveTemp ==
    /\ pc = "cleanup_temp"
    /\ \E temp_file \in pending :
        /\ pending' = pending \ {temp_file}
        /\ IF MergedExists(Cleaned, temp_file)
              /\ CanRemove(Cleaned, temp_file)
           THEN /\ root' = [root EXCEPT
                               ![playlist_dir[1]] = Without(@, temp_file)]
                /\ cleaned_count' = cleaned_count + 1
           ELSE UNCHANGED <<root, cleaned_count>>
    /\ UNCHANGED <<pc, playlist_dirs, playlist_dir, before, pattern_idx,
                   total_cleaned, downloaded_files, written>>
    /\ UNCHANGED <<stages, selectorVars, invokerVars, readerVars, runVars>>

\* The first loop is over; the second starts
StartOther ==
    /\ pc = "cleanup_temp"
    /\ pending = {}
    /\ pattern_idx > Len(temp_patterns)
    /\ pc' = "cleanup_other"
    /\ pattern_idx' = 1
    /\ UNCHANGED <<playlist_dirs, playlist_dir, before, pending,
                   cleaned_count, total_cleaned, downloaded_files>>
    /\ UNCHANGED <<stages, selectorVars, invokerVars, readerVars, fsVars,
                   runVars>>

\* unwanted_files = glob.glob(...) for the next of other_patterns
GlobOther ==
    /\ pc = "cleanup_other"
    /\ pending = {}
    /\ pattern_idx <= Len(other_patterns)
    /\ pending' = Glob(Entries(Cleaned), other_patterns[pattern_idx])
    /\ pattern_idx' = pattern_idx + 1
    /\ UNCHANGED <<pc, playlist_dirs, playlist_dir, before, cleaned_count,
                   total_cleaned, downloaded_files>>
    /\ UNCHANGED <<stages, selectorVars, invokerVars, readerVars, fsVars,
                   runVars>>

\* One iteration of `for unwanted_file in unwanted_files`, in any order
RemoveOther ==
    /\ pc = "cleanup_other"
    /\ \E unwanted_file \in pending :
        /\ pending' = pending \ {unwanted_file}
        /\ IF CanRemove(Cleaned, unwanted_file)
           THEN /\ root' = [root EXCEPT
                               ![playlist_dir[1]] = Without(@, unwanted_file)]
                /\ total_cleaned' = total_cleaned + 1
           ELSE UNCHANGED <<root, total_cleaned>>
    /\ UNCHANGED <<pc, playlist_dirs, playlist_dir, before, pattern_idx,
                   cleaned_count, downloaded_files, written>>
    /\ UNCHANGED <<stages, selectorVars, invokerVars, readerVars, runVars>>

\* cleanup_temp_files returns
CleanupReturn ==
    /\ pc = "cleanup_other"
    /\ pending = {}
    /\ pattern_idx > Len(other_patterns)
    /\ pc' = "count"
    /\ UNCHANGED <<stages, selectorVars, invokerVars, readerVars, fsVars,
                   cleanerVars, runVars>>

CleanupStep ==
    \/ GlobTemp
    \/ RemoveTemp
    \/ StartOther
    \/ GlobOther
    \/ RemoveOther
    \/ CleanupReturn

FileNames ==
    {FTalk135, FTalk140, FTalk, FAb135, FAb, FInfo, FThumb, FTalkFinal,
     FHidden, FNotes}

DirNames == {DArt}

\* Directories handed to the cleaner's specification: up to MaxEntries
\* entries, at most one of the files protected against removal
SampleDirs ==
    {[files |-> e \cap FileNames, subdirs |-> e \cap DirNames, locked |-> l] :
        <<e, l>> \in
            {<<e, l>> \in (SUBSET (FileNames \cup DirNames))
                            \X ({{}} \cup {{f} : f \in FileNames}) :
                /\ Cardinality(e) <= MaxEntries
                /\ l \subseteq e}}

InitCleanerSpec ==
    /\ pc = "cleanup_temp"
    /\ stages = <<"Preflight Checker", "Destination Resolver",
                  "Target Selector", "Download Invoker", "Artifact Cleaner">>
    /\ args = NoArgs
    /\ video_url = UrlPlaylist
    /\ typed = <<>>
    /\ user_input = <<>>
    /\ confirm = <<>>
    /\ prompts = 0
    /\ confirms = 0
    /\ is_single_video = IsSingleVideo(UrlPlaylist)
    /\ output_template = OutputTemplate(HomeVideos, is_single_video)
    /\ cmd = BuildCmd(output_template, UrlPlaylist, is_single_video)
    /\ InitReader
    /\ created = TRUE
    /\ output_dir = Some(HomeVideos)
    /\ launched = TRUE
    /\ returncode = <<0>>
    /\ exc = None
    /\ raised_at = None
    /\ success = <<>>
    /\ exit_code = <<>>
    /\ \E d \in SampleDirs :
        /\ root = [n \in {"Mix"} |-> d]
        /\ before = d
    /\ written = <<"Mix">>
    /\ playlist_dirs = <<"Mix">>
    /\ playlist_dir = <<"Mix">>
    /\ pattern_idx = 1
    /\ pending = {}
    /\ cleaned_count = 0
    /\ total_cleaned = 0
    /\ downloaded_files = {}

NextCleaner == CleanupStep

SpecCleaner == InitCleanerSpec /\ [][NextCleaner]_vars

(***************************************************************************)
(* Download Invoker: after the subprocess's output ends.                   *)
(***************************************************************************)

\* The directory yt-dlp fills for the output template in use: the literal
\* "Single Videos", or the value it substitutes for %(playlist_title)s
TargetDirs(single, titles) == IF single THEN {"Single Videos"} ELSE titles

\* End of process.stdout, the skipped summary, and process.wait().  By now
\* the subprocess has left its files under the output root.
EndOfOutput(Titles, Writes) ==
    /\ pc = "read"
    /\ \E rc \in {0, 1} : returncode' = <<rc>>
    /\ \E target \in TargetDirs(is_single_video, Titles), new \in Writes :
        /\ root' = WriteInto(root, target, new)
        /\ written' = IF target \in DOMAIN root' THEN <<target>> ELSE <<>>
    /\ pc' = "inspect"
    /\ UNCHANGED <<stages, selectorVars, invokerVars, readerVars,
                   cleanerVars>>
    /\ UNCHANGED <<created, output_dir, launched, exc, raised_at, success,
                   exit_code>>

\* The orders in which os.listdir may return the members of S
Orders(S) ==
    {s \in [1..Cardinality(S) -> S] :
        \A i, j \in 1..Cardinality(S) : s[i] = s[j] => i = j}

\* playlist_dirs[0]
FirstDir(dirs) == dirs[1]

\* playlist_dirs is computed; with one or more directories found, control
\* enters cleanup_temp_files(playlist_dir) and sets its two counters
Inspect ==
    /\ pc = "inspect"
    /\ playlist_dirs' \in Orders(DOMAIN root)
    /\ IF playlist_dirs' # <<>>
       THEN /\ playlist_dir' = <<FirstDir(playlist_dirs')>>
            /\ before' = root[playlist_dir'[1]]
            /\ stages' = Append(stages, "Artifact Cleaner")
            /\ pc' = "cleanup_temp"
            /\ pattern_idx' = 1
       ELSE /\ pc' = "finish"
            /\ UNCHANGED <<playlist_dir, before, stages, pattern_idx>>
    /\ pending' = {}
    /\ cleaned_count' = 0
    /\ total_cleaned' = 0
    /\ UNCHANGED <<downloaded_files>>
    /\ UNCHANGED <<selectorVars, invokerVars, readerVars, fsVars, runVars>>

\* f.endswith(('.mp4', '.mkv', '.webm'))
IsVideoName(f) ==
    EndsWith(f, ExtMp4) \/ EndsWith(f, ExtMkv) \/ EndsWith(f, ExtWebm)

\* downloaded_files is computed; `return True` when it is not empty
CountFiles ==
    /\ pc = "count"
    /\ downloaded_files' = {f \in Entries(Cleaned) : IsVideoName(f)}
    /\ IF downloaded_files' # {}
       THEN /\ success' = <<TRUE>>
            /\ pc' = "returned"
       ELSE /\ success' = success
            /\ pc' = "finish"
    /\ UNCHANGED <<playlist_dirs, playlist_dir, before, pattern_idx, pending,
                   cleaned_count, total_cleaned>>
    /\ UNCHANGED <<stages, selectorVars, invokerVars, readerVars, fsVars>>
    /\ UNCHANGED <<created, output_dir, launched, returncode, exc, raised_at,
                   exit_code>>

\* `if process.returncode == 0` with the else branch returning False
FinishResultStrict(rc) == rc = 0

\* `if process.returncode == 0: ... return True  else: ... return True`
FinishResult(rc) == IF rc = 0 THEN TRUE ELSE TRUE

Finish ==
    /\ pc = "finish"
    /\ success' = <<FinishResult(returncode[1])>>
    /\ pc' = "returned"
    /\ UNCHANGED <<stages, selectorVars, invokerVars, readerVars, fsVars,
                   cleanerVars>>
    /\ UNCHANGED <<created, output_dir, launched, returncode, exc, raised_at,
                   exit_code>>

\* The positions inside the try block
TryPcs ==
    {"launch", "read", "inspect", "cleanup_temp", "cleanup_other", "count",
     "finish"}

\* both except clauses returning True
HandlerResultTrue(e) == TRUE

\* `except KeyboardInterrupt: ... return False` and
\* `except Exception as e: ... return False`
HandlerResult(e) == IF e = "KeyboardInterrupt" THEN FALSE ELSE FALSE

\* An interrupt or another exception raised inside the try block
RaiseInTry ==
    /\ pc \in TryPcs
    /\ \E e \in {"KeyboardInterrupt", "Exception"} :
        /\ exc' = e
        /\ success' = <<HandlerResult(e)>>
    /\ raised_at' = pc
    /\ pc' = "returned"
    /\ UNCHANGED <<stages, selectorVars, invokerVars, readerVars, fsVars,
                   cleanerVars>>
    /\ UNCHANGED <<created, output_dir, launched, returncode, exit_code>>

\* The specification of download_video_or_playlist alone
DownloadUrls == {UrlVideo, UrlPlaylist, UrlVideoInList, UrlShort}

DownloadLines == {LineErrUnavailable, LineProgress}

DownloadTitles == {"Mix"}

DownloadWrites == {{}, {FTalk}, {FTalk140}, {FAb, FInfo}}

OldPlaylist ==
    [files |-> {FTalk135, FTalk140, FTalk}, subdirs |-> {DArt},
     locked |-> {}]

OldSingles == [files |-> {FAb135, FThumb}, subdirs |-> {}, locked |-> {}]

\* What earlier runs may have left under the output root
PriorRoots ==
    {EmptyRoot,
     [d \in {"Old Playlist"} |-> OldPlaylist],
     [d \in {"Single Videos"} |-> OldSingles],
     [d \in {"Old Playlist", "Single Videos"} |->
        IF d = "Old Playlist" THEN OldPlaylist ELSE OldSingles]}

InitDownloadSpec ==
    /\ pc = "download"
    /\ stages = <<"Preflight Checker", "Destination Resolver",
                  "Target Selector">>
    /\ args = NoArgs
    /\ video_url \in DownloadUrls
    /\ typed = <<>>
    /\ user_input = <<>>
    /\ confirm = <<>>
    /\ prompts = 0
    /\ confirms = 0
    /\ InitInvoker /\ InitReader /\ InitCleaner
    /\ created = TRUE
    /\ output_dir = Some(HomeVideos)
    /\ launched = FALSE
    /\ returncode = <<>>
    /\ exc = None
    /\ raised_at = None
    /\ success = <<>>
    /\ exit_code = <<>>
    /\ root \in PriorRoots
    /\ written = <<>>

NextDownload ==
    \/ StartDownload
    \/ Launch
    \/ ReadLine(DownloadLines)
    \/ EndOfOutput(DownloadTitles, DownloadWrites)
    \/ Inspect
    \/ CleanupStep
    \/ CountFiles
    \/ Finish
    \/ RaiseInTry

SpecDownload == InitDownloadSpec /\ [][NextDownload]_vars

(***************************************************************************)
(* main and the `if __name__ == "__main__"` block.                         *)
(***************************************************************************)

\* `if not check_ytdlp_installed(): return 1` without the return
AfterPreflightNoReturn(installed) == "mkdir"

\* where main goes after check_ytdlp_installed()
AfterPreflight(installed) == IF installed THEN "mkdir" ELSE "exit"

\* check_ytdlp_installed() and main's test of it: False when running
\* yt-dlp raised CalledProcessError or FileNotFoundError
CheckYtdlp ==
    /\ pc = "preflight"
    /\ stages' = Append(stages, "Preflight Checker")
    /\ \E installed \in BOOLEAN :
        /\ pc' = AfterPreflight(installed)
        /\ exit_code' = IF installed THEN exit_code ELSE <<1>>
        /\ exc' = IF installed THEN exc ELSE "CalledProcessError"
        /\ raised_at' = IF installed THEN raised_at ELSE "preflight"
    /\ UNCHANGED <<selectorVars, invokerVars, readerVars, fsVars,
                   cleanerVars>>
    /\ UNCHANGED <<created, output_dir, launched, returncode, success>>

\* create_download_directory() and main's test of it: None when mkdir
\* raised
CreateDirectory ==
    /\ pc = "mkdir"
    /\ stages' = Append(stages, "Destination Resolver")
    /\ \E made \in BOOLEAN :
        IF made
        THEN /\ created' = TRUE
             /\ output_dir' = Some(HomeVideos)
             /\ pc' = "select"
             /\ UNCHANGED <<exit_code, exc, raised_at>>
        ELSE /\ created' = FALSE
             /\ output_dir' = NoString
             /\ exit_code' = <<1>>
             /\ exc' = "Exception"
             /\ raised_at' = "mkdir"
             /\ pc' = "exit"
    /\ UNCHANGED <<selectorVars, invokerVars, readerVars, fsVars,
                   cleanerVars>>
    /\ UNCHANGED <<launched, returncode, success>>

\* An interrupt while get_video_url runs: main's
\* `except KeyboardInterrupt: ... return 0`
InterruptSelector ==
    /\ pc \in {"select", "prompt", "confirm"}
    /\ exc' = "KeyboardInterrupt"
    /\ raised_at' = pc
    /\ exit_code' = <<0>>
    /\ pc' = "exit"
    /\ UNCHANGED <<stages, selectorVars, invokerVars, readerVars, fsVars,
                   cleanerVars>>
    /\ UNCHANGED <<created, output_dir, launched, returncode, success>>

\* An interrupt anywhere else outside the invoker's try block: it leaves
\* main and reaches the handler around main(), which calls sys.exit(0)
InterruptElsewhere ==
    /\ pc \in {"preflight", "mkdir", "download", "returned"}
    /\ exc' = "KeyboardInterrupt"
    /\ raised_at' = pc
    /\ exit_code' = <<0>>
    /\ pc' = "exit"
    /\ UNCHANGED <<stages, selectorVars, invokerVars, readerVars, fsVars,
                   cleanerVars>>
    /\ UNCHANGED <<created, output_dir, launched, returncode, success>>

\* `if success: return 0  else: return 1`, then sys.exit(exit_code)
MainResult ==
    /\ pc = "returned"
    /\ exit_code' = <<IF success[1] THEN 0 ELSE 1>>
    /\ pc' = "exit"
    /\ UNCHANGED <<stages, selectorVars, invokerVars, readerVars, fsVars,
                   cleanerVars>>
    /\ UNCHANGED <<created, output_dir, launched, returncode, exc, raised_at,
                   success>>

\* The whole program, on a small choice of inputs
MainUrls == {NoString, Some(UrlVideo), Some(UrlPlaylist)}

MainInputs == {TypedEmpty, UrlOther, UrlShort}

MainAnswers == {TypedY, TypedN}

MainLines == {LineErrUnavailable}

MainWrites == {{}, {FTalk, FTalk140}}

MainRoots == {EmptyRoot, [d \in {"Old Playlist"} |-> OldPlaylist]}

Init ==
    /\ pc = "preflight"
    /\ stages = <<>>
    /\ args \in [url : MainUrls, single_video : BOOLEAN,
                 use_default : BOOLEAN]
    /\ InitSelector /\ InitInvoker /\ InitReader /\ InitCleaner /\ InitRun
    /\ root \in MainRoots
    /\ written = <<>>

Next ==
    \/ CheckYtdlp
    \/ CreateDirectory
    \/ SelectFromArgs
    \/ PromptUrl(MainInputs)
    \/ PromptConfirm(MainAnswers)
    \/ InterruptSelector
    \/ InterruptElsewhere
    \/ StartDownload
    \/ Launch
    \/ ReadLine(MainLines)
    \/ EndOfOutput(DownloadTitles, MainWrites)
    \/ Inspect
    \/ CleanupStep
    \/ CountFiles
    \/ Finish
    \/ RaiseInTry
    \/ MainResult

Spec == Init /\ [][Next]_vars

(***************************************************************************)
(* Properties.                                                             *)
(***************************************************************************)

\* C1: get_video_url resolves the target in strict priority order: a
\* non-empty --url is returned verbatim whatever the flags; otherwise
\* --single-video returns the fallback single-video URL, also when
\* --use-default is set; otherwise --use-default returns the fallback
\* playlist URL; the prompt is reached only when none of the three is given.
C1_PriorityOrder ==
    (pc # "select") =>
        LET explicit == args.url.given /\ args.url.value # <<>>
        IN  /\ explicit =>
                /\ pc = "download"
                /\ video_url = args.url.value
                /\ prompts = 0
            /\ (~explicit /\ args.single_video) =>
                /\ pc = "download"
                /\ video_url = default_video_url
                /\ prompts = 0
            /\ (~explicit /\ ~args.single_video /\ args.use_default) =>
                /\ pc = "download"
                /\ video_url = default_playlist_url
                /\ prompts = 0
            /\ (pc \in {"prompt", "confirm"} \/ prompts > 0) =>
                /\ ~explicit
                /\ ~args.single_video
                /\ ~args.use_default

\* An explicit URL was returned although both flags were set as well
C1_Witness ==
    /\ pc = "download"
    /\ args.url = Some(UrlOther)
    /\ args.single_video
    /\ args.use_default
    /\ video_url = UrlOther

C2_Single(url) == Contains(url, WatchMarker) /\ ~Contains(url, ListMarker)

C2_Count(list, x) == Cardinality({i \in 1..Len(list) : list[i] = x})

\* C2: a URL is classified single-video iff it contains "watch?v=" and not
\* "list="; a single-video URL gets the <root>/Single Videos/ template and
\* no playlist flag; every URL containing "list=" gets the
\* <root>/<playlist_title>/ template and the playlist flag, placed right
\* before the URL, which stays the last argument.
C2_Classification ==
    (pc = "launch") =>
        /\ is_single_video = C2_Single(video_url)
        /\ cmd[Len(cmd)] = video_url
        /\ \E i \in 1..(Len(cmd) - 1) :
              cmd[i] = ArgOutput /\ cmd[i + 1] = output_template
        /\ C2_Single(video_url) =>
              /\ output_template = HomeVideos \o SingleTemplateTail
              /\ C2_Count(cmd, ArgYesPlaylist) = 0
        /\ Contains(video_url, ListMarker) =>
              /\ output_template = HomeVideos \o PlaylistTemplateTail
              /\ C2_Count(cmd, ArgYesPlaylist) = 1
              /\ cmd[Len(cmd) - 1] = ArgYesPlaylist

\* A URL with both markers was built into a playlist command
C2_Witness ==
    /\ pc = "launch"
    /\ video_url = UrlVideoInList
    /\ ~is_single_video
    /\ cmd[Len(cmd) - 1] = ArgYesPlaylist

C3_Has(text, phrases) == \E p \in phrases : Contains(Lower(text), p)

C3_Expected(text) ==
    IF C3_Has(text, {SkipUnavailable, SkipPrivate, SkipBlocked,
                     SkipTerminated, SkipCopyright}) THEN "skipped"
    ELSE IF C3_Has(text, {ErrorMarker}) THEN "error"
    ELSE IF C3_Has(text, {KwDownloading, KwFinished, KwExtracting,
                          KwPercent, KwPlaylist}) THEN "progress"
    ELSE "suppressed"

C3_State ==
    /\ (lines_read > 0 /\ line # <<>>) =>
          /\ category \in {"skipped", "error", "progress", "suppressed"}
          /\ category = C3_Expected(line)
    /\ skipped_count + error_count <= nonblank
    /\ nonblank <= lines_read

C3_Step ==
    (lines_read' = lines_read + 1) =>
        /\ (line' # <<>>) =>
              /\ skipped_count' =
                    skipped_count + (IF category' = "skipped" THEN 1 ELSE 0)
              /\ error_count' =
                    error_count + (IF category' = "error" THEN 1 ELSE 0)
        /\ (line' = <<>>) =>
              /\ skipped_count' = skipped_count
              /\ error_count' = error_count
        /\ (line' = Strip(LineErrUnavailable)) =>
              /\ skipped_count' = skipped_count + 1
              /\ error_count' = error_count

\* C3: every non-blank output line falls in exactly one of skipped, error,
\* progress, suppressed, by case-insensitive substring match in the order
\* skip phrase, "error:", progress keyword, otherwise suppressed; a line
\* with both a skip phrase and "error:" increments only the skipped counter;
\* skipped_count + error_count never exceeds the non-blank lines read.
C3_LineClassification == [](C3_State) /\ [][C3_Step]_vars

\* "ERROR: Video unavailable" was read and counted as skipped, not error
C3_Witness ==
    /\ lines_read = 2
    /\ line = Strip(LineErrUnavailable)
    /\ category = "skipped"
    /\ skipped_count = 1
    /\ error_count = 1

\* C4: download_video_or_playlist returns success whenever the subprocess
\* ran to completion, whatever its exit status and whether or not a video
\* file or subdirectory is found; it returns failure only when an interrupt
\* or another exception occurred inside the try block.
C4_SuccessUnlessRaised ==
    (pc = "returned") =>
        /\ success \in {<<TRUE>>, <<FALSE>>}
        /\ (exc = None) => success = <<TRUE>>
        /\ (success = <<FALSE>>) =>
              /\ exc \in {"KeyboardInterrupt", "Exception"}
              /\ raised_at \in {"launch", "read", "inspect", "cleanup_temp",
                                "cleanup_other", "count", "finish"}

\* Success was returned for exit status 1 with no subdirectory found
C4_Witness ==
    /\ pc = "returned"
    /\ success = <<TRUE>>
    /\ returncode = <<1>>
    /\ DOMAIN root = {}
    /\ exc = None

\* the name with its last ".f<code>" infix removed and ".mp4" forced
C5_Merged(name) ==
    LET at == {i \in 1..(Len(name) - 1) : SubSeq(name, i, i + 1) = DotF}
    IN  IF at = {} THEN name \o ExtMp4
        ELSE SubSeq(name, 1, (CHOOSE i \in at : \A j \in at : j <= i) - 1)
                 \o ExtMp4

C5_IsTemp(name) ==
    \E i \in 1..Len(temp_patterns) : name \in Glob({name}, temp_patterns[i])

\* C5: a file matching a per-stream temporary pattern is deleted only if
\* its merged filename (format-code infix stripped, .mp4 forced) exists in
\* the same directory; so after a full cleanup of a directory holding
\* talk.f135.mp4, talk.f140.m4a or a.b.f135.mp4 and no merged file, the
\* fragment is still present.
C5_TempKeptWithoutMerged ==
    (pc = "count") =>
        \A f \in before.files :
            (C5_IsTemp(f) /\ C5_Merged(f) \notin Entries(before))
                => f \in Cleaned.files

C6_Unwanted(name) ==
    \E i \in 1..Len(unwanted_patterns) : FnMatch(name, unwanted_patterns[i])

\* C6: the program never removes the output directory or a subdirectory,
\* and cleanup_temp_files leaves every file alone that matches none of the
\* unwanted patterns; given talk.f135.mp4, talk.f140.m4a and talk.mp4 (and
\* no removal refused by the system), the two fragments are deleted and
\* talk.mp4 is kept.
C6_Frame ==
    (pc \in {"cleanup_temp", "cleanup_other", "count"}) =>
        /\ playlist_dir[1] \in DOMAIN root
        /\ Cleaned.subdirs = before.subdirs
        /\ Cleaned.files \subseteq before.files
        /\ \A f \in before.files : ~C6_Unwanted(f) => f \in Cleaned.files
        /\ (/\ pc = "count"
            /\ before.files = {FTalk135, FTalk140, FTalk}
            /\ before.locked = {})
              => Cleaned.files = {FTalk}

\* The three files were cleaned next to a subdirectory named like a
\* thumbnail: the fragments are gone, talk.mp4 and the subdirectory remain
C6_Witness ==
    /\ pc = "count"
    /\ before.files = {FTalk135, FTalk140, FTalk}
    /\ before.subdirs = {DArt}
    /\ Cleaned.files = {FTalk}
    /\ Cleaned.subdirs = {DArt}
    /\ cleaned_count = 2

C7_Stages ==
    <<"Preflight Checker", "Destination Resolver", "Target Selector",
      "Download Invoker", "Artifact Cleaner">>

C7_NothingAfterSetup ==
    /\ pc = "exit"
    /\ exit_code = <<1>>
    /\ prompts = 0
    /\ confirms = 0
    /\ video_url = <<>>
    /\ ~launched
    /\ cmd = <<>>
    /\ playlist_dir = <<>>
    /\ cleaned_count = 0
    /\ total_cleaned = 0
    /\ root \in MainRoots

\* C7: the stages run in the order Preflight, Destination Resolver, Target
\* Selector, Download Invoker, Artifact Cleaner; when the retrieval tool is
\* unavailable main returns 1 without creating the directory, prompting or
\* launching the download; when the directory cannot be created main
\* returns 1 without prompting or launching; nothing is launched or deleted
\* after either failure.
C7_SetupFailureStops ==
    /\ Len(stages) <= Len(C7_Stages)
    /\ stages = SubSeq(C7_Stages, 1, Len(stages))
    /\ launched => (created /\ Len(stages) >= 4)
    /\ (exc = "CalledProcessError") =>
          /\ C7_NothingAfterSetup
          /\ ~created
          /\ stages = <<"Preflight Checker">>
    /\ (exc = "Exception" /\ raised_at = "mkdir") =>
          /\ C7_NothingAfterSetup
          /\ stages = <<"Preflight Checker", "Destination Resolver">>

\* The retrieval tool was missing and the run ended with exit code 1
C7_Witness ==
    /\ pc = "exit"
    /\ exc = "CalledProcessError"
    /\ exit_code = <<1>>
    /\ ~created

\* C8 as stated: an interrupt delivered at any prompt or during the
\* download is caught and the program ends with exit code 0.
C8_InterruptExitsZero ==
    (/\ pc = "exit"
     /\ exc = "KeyboardInterrupt"
     /\ raised_at \in {"prompt", "confirm", "launch", "read", "inspect",
                       "cleanup_temp", "cleanup_other", "count", "finish"})
        => exit_code = <<0>>

\* C8, amended: an interrupt delivered at a prompt is caught by main and
\* the program ends with exit code 0; an interrupt delivered while the
\* subprocess is launched, read, waited on or its results are inspected is
\* caught by download_video_or_playlist, which returns failure, and the
\* program ends with exit code 1.
C8_InterruptExitCodes ==
    (pc = "exit" /\ exc = "KeyboardInterrupt") =>
        /\ (raised_at \in {"prompt", "confirm"}) => exit_code = <<0>>
        /\ (raised_at \in {"launch", "read", "inspect", "cleanup_temp",
                           "cleanup_other", "count", "finish"}) =>
              /\ success = <<FALSE>>
              /\ exit_code = <<1>>

\* An interrupt while reading the subprocess's output ended the run with 1
C8_Witness ==
    /\ pc = "exit"
    /\ exc = "KeyboardInterrupt"
    /\ raised_at = "read"
    /\ exit_code = <<1>>

C9_Recognized(url) == Contains(url, HostLong) \/ Contains(url, HostShort)

C9_Yes == {<<"y">>, <<"y", "e", "s">>}

C9_Returned ==
    (pc = "download" /\ prompts > 0) =>
        \/ video_url = default_playlist_url
        \/ C9_Recognized(video_url)
        \/ (confirms > 0 /\ confirm \in C9_Yes /\ video_url = user_input)

C9_Step ==
    /\ (pc = "prompt" /\ prompts' = prompts + 1) =>
          /\ (Strip(typed') = <<>>) =>
                /\ pc' = "download"
                /\ video_url' = default_playlist_url
                /\ confirms' = confirms
          /\ (Strip(typed') # <<>> /\ C9_Recognized(Strip(typed'))) =>
                /\ pc' = "download"
                /\ video_url' = Strip(typed')
                /\ confirms' = confirms
          /\ (Strip(typed') # <<>> /\ ~C9_Recognized(Strip(typed'))) =>
                /\ pc' = "confirm"
                /\ user_input' = Strip(typed')
    /\ (pc = "confirm" /\ confirms' = confirms + 1) =>
          IF Lower(Strip(typed')) \in C9_Yes
          THEN pc' = "download" /\ video_url' = user_input
          ELSE pc' = "prompt" /\ video_url' = video_url

\* C9: in the prompt loop an empty input returns the default playlist URL;
\* a non-empty input containing "youtube.com" or "youtu.be" is returned at
\* once, without a confirmation question; any other input is returned only
\* after the operator answers y or yes, and any other answer leads back to
\* the URL prompt; so the loop returns only the default playlist URL, a
\* value with a recognized host, or a confirmed value.
C9_PromptLoop == [](C9_Returned) /\ [][C9_Step]_vars

\* The operator declined once, typed the same kind of URL again and
\* confirmed it
C9_Witness ==
    /\ pc = "download"
    /\ prompts = 2
    /\ confirms = 2
    /\ video_url = UrlOther
    /\ ~C9_Recognized(video_url)

\* C10: the directory passed to cleanup_temp_files and counted for
\* downloaded videos is the one this run's output template wrote into,
\* whatever the output root held before.  Stated for the runs in which the
\* subprocess wrote into a directory.
C10_CleansWrittenDir ==
    (playlist_dir # <<>> /\ written # <<>>) => playlist_dir = written

=============================================================================
